---- MODULE Spec2Model ----
(***************************************************************************)
(* ClawX workspace context synchronizer                                    *)
(* (electron/utils/openclaw-workspace.ts).                                 *)
(*                                                                         *)
(* Text is a sequence of symbols.  The two markers are literals that have  *)
(* no proper border, do not overlap each other, contain no newline and     *)
(* neither start nor end with white space, so no concatenation the code    *)
(* performs can create or destroy an occurrence of a marker across a       *)
(* boundary; each marker is therefore one symbol of the alphabet.  The     *)
(* marker constants stay sequences and every search and slice goes through *)
(* their length, as in the source.                                         *)
(***************************************************************************)
EXTENDS Integers, Sequences, FiniteSets, TLC

(***************************************************************************)
(* Bounds of the model.                                                    *)
(***************************************************************************)
MaxDocLen == 4
MaxSecLen == 1
MaxFileLen == 2
MaxRuns == 2
MaxAgents == 2
MaxServerLen == 4
MaxBypassLen == 4
MaxSyncs == 4

(***************************************************************************)
(* Text.                                                                   *)
(***************************************************************************)
NL == "\n"
SP == " "
CLAWX_BEGIN == <<"<!-- clawx:begin -->">>
CLAWX_END == <<"<!-- clawx:end -->">>

\* the symbols a document or a template body is made of: the two marker
\* literals, a non-blank character, a blank and a line break
Alphabet == {CLAWX_BEGIN[1], CLAWX_END[1], "x", SP, NL}

IsSpace(c) == c \in {SP, NL}

SeqsUpTo(S, n) == UNION {[1..k -> S] : k \in 0..n}

\* String.prototype.slice(from, to) with 0-based indices, 0 <= from
Slice(s, from, to) == SubSeq(s, from + 1, to)

\* String.prototype.slice(from)
SliceFrom(s, from) == SubSeq(s, from + 1, Len(s))

\* String.prototype.indexOf(m): 0-based index of the first occurrence, -1 if none
IndexOf(s, m) ==
    LET hits == {i \in 0..(Len(s) - Len(m)) : Slice(s, i, i + Len(m)) = m}
    IN  IF hits = {} THEN -1 ELSE CHOOSE i \in hits : \A j \in hits : i <= j

\* String.prototype.trimEnd()
TrimEnd(s) ==
    LET solid == {i \in 1..Len(s) : ~IsSpace(s[i])}
    IN  IF solid = {} THEN <<>>
        ELSE SubSeq(s, 1, CHOOSE i \in solid : \A j \in solid : j <= i)

\* String.prototype.trimStart()
TrimStart(s) ==
    LET solid == {i \in 1..Len(s) : ~IsSpace(s[i])}
    IN  IF solid = {} THEN <<>>
        ELSE SubSeq(s, CHOOSE i \in solid : \A j \in solid : i <= j, Len(s))

\* String.prototype.trim()
Trim(s) == TrimStart(TrimEnd(s))

\* `${CLAWX_BEGIN}\n${section.trim()}\n${CLAWX_END}`
Wrapped(section) == CLAWX_BEGIN \o <<NL>> \o Trim(section) \o <<NL>> \o CLAWX_END

\* mutant: the tail is taken from the start of END, not from its end
mergeKeepingEnd(existing, section) ==
    LET wrapped == Wrapped(section)
        beginIdx == IndexOf(existing, CLAWX_BEGIN)
        endIdx == IndexOf(existing, CLAWX_END)
    IN  IF beginIdx # -1 /\ endIdx # -1
        THEN Slice(existing, 0, beginIdx) \o wrapped \o SliceFrom(existing, endIdx)
        ELSE TrimEnd(existing) \o <<NL, NL>> \o wrapped \o <<NL>>

\* mutant: one marker is enough to replace in place
mergeOnEitherMarker(existing, section) ==
    LET wrapped == Wrapped(section)
        beginIdx == IndexOf(existing, CLAWX_BEGIN)
        endIdx == IndexOf(existing, CLAWX_END)
    IN  IF beginIdx # -1 \/ endIdx # -1
        THEN Slice(existing, 0, beginIdx) \o wrapped
                 \o SliceFrom(existing, endIdx + Len(CLAWX_END))
        ELSE TrimEnd(existing) \o <<NL, NL>> \o wrapped \o <<NL>>

\* mutant: the section is appended whether or not the markers are there
mergeAlwaysAppending(existing, section) ==
    TrimEnd(existing) \o <<NL, NL>> \o Wrapped(section) \o <<NL>>

\* mutant: the document is trimmed at both ends before the section is appended
mergeTrimmingBothEnds(existing, section) ==
    LET wrapped == Wrapped(section)
        beginIdx == IndexOf(existing, CLAWX_BEGIN)
        endIdx == IndexOf(existing, CLAWX_END)
    IN  IF beginIdx # -1 /\ endIdx # -1
        THEN Slice(existing, 0, beginIdx) \o wrapped
                 \o SliceFrom(existing, endIdx + Len(CLAWX_END))
        ELSE Trim(existing) \o <<NL, NL>> \o wrapped \o <<NL>>

mergeClawXSection(existing, section) ==
    LET wrapped == Wrapped(section)
        beginIdx == IndexOf(existing, CLAWX_BEGIN)
        endIdx == IndexOf(existing, CLAWX_END)
    IN  IF beginIdx # -1 /\ endIdx # -1
        THEN Slice(existing, 0, beginIdx) \o wrapped
                 \o SliceFrom(existing, endIdx + Len(CLAWX_END))
        ELSE TrimEnd(existing) \o <<NL, NL>> \o wrapped \o <<NL>>

\* mutant: the text after the section is not looked at
IsHollowIgnoringAfter(content) ==
    LET beginIdx == IndexOf(content, CLAWX_BEGIN)
        endIdx == IndexOf(content, CLAWX_END)
    IN  IF beginIdx = -1 \/ endIdx = -1 THEN FALSE
        ELSE Trim(Slice(content, 0, beginIdx)) = <<>>

\* the test repairClawXOnlyBootstrapFiles applies to a file's content
IsHollowBootstrap(content) ==
    LET beginIdx == IndexOf(content, CLAWX_BEGIN)
        endIdx == IndexOf(content, CLAWX_END)
    IN  IF beginIdx = -1 \/ endIdx = -1 THEN FALSE
        ELSE LET before == Trim(Slice(content, 0, beginIdx))
                 after == Trim(SliceFrom(content, endIdx + Len(CLAWX_END)))
             IN  before = <<>> /\ after = <<>>

(***************************************************************************)
(* Paths and file names: sequences of symbols, "/" being the separator.    *)
(***************************************************************************)
Range(q) == {q[k] : k \in 1..Len(q)}

\* os.homedir()
homedir == <<"/home/u">>

\* path.join(a, b)
Join(a, b) == a \o <<"/">> \o b

openclawDir == Join(homedir, <<".openclaw">>)
configPath == Join(openclawDir, <<"openclaw.json">>)
defaultWorkspace == Join(openclawDir, <<"workspace">>)

\* String.prototype.endsWith(suffix)
EndsWith(s, suffix) ==
    Len(s) >= Len(suffix) /\ SubSeq(s, Len(s) - Len(suffix) + 1, Len(s)) = suffix

\* String.prototype.startsWith(prefix)
StartsWith(s, prefix) == Len(s) >= Len(prefix) /\ SubSeq(s, 1, Len(prefix)) = prefix

\* ws.replace(/^~/, homedir())
ExpandHome(ws) == IF StartsWith(ws, <<"~">>) THEN homedir \o Tail(ws) ELSE ws

\* file.replace('.clawx.md', '.md'): the first occurrence only
TargetName(file) ==
    LET at == IndexOf(file, <<".clawx", ".md">>)
    IN  IF at = -1 THEN file
        ELSE Slice(file, 0, at) \o <<".md">> \o SliceFrom(file, at + 2)

(***************************************************************************)
(* The file system: fs is a record                                         *)
(*   files  : function from the paths of the regular files to their text   *)
(*   dirs   : set of the paths of the directories                          *)
(*   denied : set of <<path, operation>> the operating system refuses      *)
(***************************************************************************)
\* fs.existsSync(p)
existsSync(fs, p) == p \in fs.dirs \/ p \in DOMAIN fs.files

\* the entries of directory d: the last components of the paths right below d
Entries(fs, d) ==
    {SliceFrom(p, Len(d) + 1) :
        p \in {q \in fs.dirs \cup DOMAIN fs.files :
                 /\ Len(q) > Len(d) + 1
                 /\ StartsWith(q, d \o <<"/">>)
                 /\ "/" \notin Range(SliceFrom(q, Len(d) + 1))}}

\* fs.readdirSync(d) succeeds
CanList(fs, d) == d \in fs.dirs /\ <<d, "list">> \notin fs.denied

\* fs.readFileSync(p) succeeds
CanRead(fs, p) == p \in DOMAIN fs.files /\ <<p, "read">> \notin fs.denied

\* fs.writeFileSync(p) succeeds on an existing regular file
CanWrite(fs, p) == p \in DOMAIN fs.files /\ <<p, "write">> \notin fs.denied

\* fs.unlinkSync(p) succeeds
CanUnlink(fs, p) == p \in DOMAIN fs.files /\ <<p, "unlink">> \notin fs.denied

\* the path and the directories above it
Ancestors(p) == {SubSeq(p, 1, k - 1) : k \in {i \in 2..Len(p) : p[i] = "/"}} \cup {p}

\* fs.mkdirSync(p, {recursive: true}) succeeds
CanMkdir(fs, p) ==
    /\ <<p, "mkdir">> \notin fs.denied
    /\ Ancestors(p) \cap DOMAIN fs.files = {}

Remove(f, gone) == [p \in DOMAIN f \ gone |-> f[p]]

\* an order of the elements of a set (the order readdir or a Set hands out)
RECURSIVE SeqOf(_)
SeqOf(S) == IF S = {} THEN <<>>
            ELSE LET x == CHOOSE y \in S : TRUE IN <<x>> \o SeqOf(S \ {x})

(***************************************************************************)
(* resolveAllWorkspaceDirs                                                 *)
(*                                                                         *)
(* The configuration document is kept parsed: cfg.state is "missing" (no   *)
(* file), "malformed" (the read or JSON.parse throws) or "parsed"; a       *)
(* workspace field is [str |-> is it a string, val |-> its text];          *)
(* cfg.list is [arr |-> is agents.list an array, items |-> the workspace   *)
(* field of each agent].                                                   *)
(***************************************************************************)
\* typeof ws === 'string' && ws.trim()
IsWorkspaceString(ws) == ws.str /\ Trim(ws.val) # <<>>

\* mutant: an array push, which keeps a path that is already there
SetAddAgain(q, x) == Append(q, x)

\* Set.prototype.add, the set kept in insertion order
SetAdd(q, x) == IF x \in Range(q) THEN q ELSE Append(q, x)

RECURSIVE SetAddAll(_, _)
SetAddAll(q, xs) == IF xs = <<>> THEN q ELSE SetAddAll(SetAdd(q, Head(xs)), Tail(xs))

RECURSIVE AgentWorkspaces(_)
AgentWorkspaces(items) ==
    IF items = <<>> THEN <<>>
    ELSE (IF IsWorkspaceString(Head(items)) THEN <<ExpandHome(Head(items).val)>> ELSE <<>>)
             \o AgentWorkspaces(Tail(items))

\* the paths the configuration document contributes (lines 78-99)
ConfigWorkspaces(cfg) ==
    IF cfg.state # "parsed" THEN <<>>
    ELSE (IF IsWorkspaceString(cfg.defaults) THEN <<ExpandHome(cfg.defaults.val)>> ELSE <<>>)
             \o (IF cfg.list.arr THEN AgentWorkspaces(cfg.list.items) ELSE <<>>)

\* the paths the scan of ~/.openclaw contributes (lines 101-109)
ScannedWorkspaces(fs) ==
    IF ~CanList(fs, openclawDir) THEN <<>>
    ELSE SeqOf({Join(openclawDir, name) :
                  name \in {n \in Entries(fs, openclawDir) :
                              /\ Join(openclawDir, n) \in fs.dirs
                              /\ StartsWith(n, <<"workspace">>)}})

\* mutant: no fallback
WithoutDefault(found) == found

\* the fallback when no source contributed (lines 111-113)
WithDefault(found) == IF Len(found) = 0 THEN <<defaultWorkspace>> ELSE found

\* mutant: one try block around both sources, so that a configuration
\* document that cannot be parsed ends the scan as well
resolveInOneTry(cfg, fs) ==
    IF cfg.state = "malformed" THEN WithDefault(<<>>)
    ELSE WithDefault(SetAddAll(SetAddAll(<<>>, ConfigWorkspaces(cfg)), ScannedWorkspaces(fs)))

resolveAllWorkspaceDirs(cfg, fs) ==
    WithDefault(SetAddAll(SetAddAll(<<>>, ConfigWorkspaces(cfg)), ScannedWorkspaces(fs)))

(***************************************************************************)
(* repairClawXOnlyBootstrapFiles                                           *)
(***************************************************************************)
\* one file of one workspace (lines 43-63)
RepairFile(fs, workspaceDir, file) ==
    LET filePath == Join(workspaceDir, file)
    IN  IF ~CanRead(fs, filePath) THEN fs
        ELSE IF ~IsHollowBootstrap(fs.files[filePath]) THEN fs
        ELSE IF ~CanUnlink(fs, filePath) THEN fs
        ELSE [fs EXCEPT !.files = Remove(@, {filePath})]

RECURSIVE RepairFiles(_, _, _)
RepairFiles(fs, workspaceDir, entries) ==
    IF entries = <<>> THEN fs
    ELSE RepairFiles(RepairFile(fs, workspaceDir, Head(entries)), workspaceDir, Tail(entries))

\* mutant: every entry of the workspace is examined, not only the *.md ones
RepairDirAnyFile(fs, workspaceDir) ==
    IF ~existsSync(fs, workspaceDir) THEN fs
    ELSE IF ~CanList(fs, workspaceDir) THEN fs
    ELSE RepairFiles(fs, workspaceDir, SeqOf(Entries(fs, workspaceDir)))

\* one workspace (lines 35-64)
RepairDir(fs, workspaceDir) ==
    IF ~existsSync(fs, workspaceDir) THEN fs
    ELSE IF ~CanList(fs, workspaceDir) THEN fs
    ELSE RepairFiles(fs, workspaceDir,
             SeqOf({f \in Entries(fs, workspaceDir) : EndsWith(f, <<".md">>)}))

\* mutant: the pass ends at the first workspace that cannot be listed
RECURSIVE RepairDirsStopping(_, _)
RepairDirsStopping(fs, workspaceDirs) ==
    IF workspaceDirs = <<>> THEN fs
    ELSE IF existsSync(fs, Head(workspaceDirs)) /\ ~CanList(fs, Head(workspaceDirs)) THEN fs
    ELSE RepairDirsStopping(RepairDir(fs, Head(workspaceDirs)), Tail(workspaceDirs))

RECURSIVE RepairDirs(_, _)
RepairDirs(fs, workspaceDirs) ==
    IF workspaceDirs = <<>> THEN fs
    ELSE RepairDirs(RepairDir(fs, Head(workspaceDirs)), Tail(workspaceDirs))

repairClawXOnlyBootstrapFiles(cfg, fs) == RepairDirs(fs, resolveAllWorkspaceDirs(cfg, fs))

(***************************************************************************)
(* ensureClawXContext                                                      *)
(*                                                                         *)
(* The bundled resources/context directory is ctx: present (it exists),    *)
(* listable (readdirSync succeeds) and bodies, the text of each of its     *)
(* files.  A run is [fs, written, threw]: the file system so far, the      *)
(* paths writeFileSync was called on, and whether an exception has left    *)
(* the function.                                                           *)
(***************************************************************************)
\* mutant: a missing target is created from the empty text
SyncFileCreating(run, ctx, workspaceDir, file) ==
    LET targetPath == Join(workspaceDir, TargetName(file))
    IN  IF run.threw THEN run
        ELSE IF targetPath \in run.fs.dirs THEN [run EXCEPT !.threw = TRUE]
        ELSE LET existing == IF targetPath \in DOMAIN run.fs.files
                             THEN run.fs.files[targetPath] ELSE <<>>
                 merged == mergeClawXSection(existing, ctx.bodies[file])
             IN  IF merged = existing THEN run
                 ELSE [run EXCEPT
                         !.fs.files = [p \in DOMAIN @ \cup {targetPath} |->
                                          IF p = targetPath THEN merged ELSE @[p]],
                         !.written = @ \cup {targetPath}]

\* mutant: a target that holds no BEGIN marker yet is left alone
SyncFileSkippingUnmarked(run, ctx, workspaceDir, file) ==
    LET targetPath == Join(workspaceDir, TargetName(file))
    IN  IF run.threw THEN run
        ELSE IF ~existsSync(run.fs, targetPath) THEN run
        ELSE IF ~CanRead(run.fs, targetPath) THEN [run EXCEPT !.threw = TRUE]
        ELSE LET existing == run.fs.files[targetPath]
                 merged == mergeClawXSection(existing, ctx.bodies[file])
             IN  IF merged = existing \/ IndexOf(existing, CLAWX_BEGIN) = -1 THEN run
                 ELSE IF ~CanWrite(run.fs, targetPath) THEN [run EXCEPT !.threw = TRUE]
                 ELSE [run EXCEPT !.fs.files[targetPath] = merged,
                                  !.written = @ \cup {targetPath}]

\* mutant: the merged text is written without being compared
SyncFileAlwaysWriting(run, ctx, workspaceDir, file) ==
    LET targetPath == Join(workspaceDir, TargetName(file))
    IN  IF run.threw THEN run
        ELSE IF ~existsSync(run.fs, targetPath) THEN run
        ELSE IF ~CanRead(run.fs, targetPath) THEN [run EXCEPT !.threw = TRUE]
        ELSE LET existing == run.fs.files[targetPath]
                 merged == mergeClawXSection(existing, ctx.bodies[file])
             IN  IF ~CanWrite(run.fs, targetPath) THEN [run EXCEPT !.threw = TRUE]
                 ELSE [run EXCEPT !.fs.files[targetPath] = merged,
                                  !.written = @ \cup {targetPath}]

\* one template in one workspace (lines 149-164)
SyncFile(run, ctx, workspaceDir, file) ==
    LET targetPath == Join(workspaceDir, TargetName(file))
    IN  IF run.threw THEN run
        ELSE IF ~existsSync(run.fs, targetPath) THEN run
        ELSE IF ~CanRead(run.fs, targetPath) THEN [run EXCEPT !.threw = TRUE]
        ELSE LET existing == run.fs.files[targetPath]
                 merged == mergeClawXSection(existing, ctx.bodies[file])
             IN  IF merged = existing THEN run
                 ELSE IF ~CanWrite(run.fs, targetPath) THEN [run EXCEPT !.threw = TRUE]
                 ELSE [run EXCEPT !.fs.files[targetPath] = merged,
                                  !.written = @ \cup {targetPath}]

RECURSIVE SyncFiles(_, _, _, _)
SyncFiles(run, ctx, workspaceDir, files) ==
    IF files = <<>> THEN run
    ELSE SyncFiles(SyncFile(run, ctx, workspaceDir, Head(files)), ctx, workspaceDir, Tail(files))

\* if (!existsSync(workspaceDir)) mkdirSync(workspaceDir, { recursive: true })
EnsureDir(run, workspaceDir) ==
    IF run.threw \/ existsSync(run.fs, workspaceDir) THEN run
    ELSE IF ~CanMkdir(run.fs, workspaceDir) THEN [run EXCEPT !.threw = TRUE]
    ELSE [run EXCEPT !.fs.dirs = @ \cup Ancestors(workspaceDir)]

RECURSIVE SyncDirs(_, _, _, _)
SyncDirs(run, ctx, workspaceDirs, files) ==
    IF workspaceDirs = <<>> THEN run
    ELSE SyncDirs(SyncFiles(EnsureDir(run, Head(workspaceDirs)), ctx, Head(workspaceDirs), files),
                  ctx, Tail(workspaceDirs), files)

\* readdirSync(contextDir).filter((f) => f.endsWith('.clawx.md'))
TemplateFiles(ctx) == SeqOf({f \in DOMAIN ctx.bodies : EndsWith(f, <<".clawx", ".md">>)})

\* mutant: the workspaces are walked, and created, before the context
\* directory is looked at
ensureWalkingFirst(cfg, fs, ctx) ==
    SyncDirs([fs |-> fs, written |-> {}, threw |-> FALSE], ctx,
             resolveAllWorkspaceDirs(cfg, fs),
             IF ctx.present /\ ctx.listable THEN TemplateFiles(ctx) ELSE <<>>)

ensureClawXContext(cfg, fs, ctx) ==
    LET start == [fs |-> fs, written |-> {}, threw |-> FALSE]
    IN  IF ~ctx.present THEN start
        ELSE IF ~ctx.listable THEN start
        ELSE SyncDirs(start, ctx, resolveAllWorkspaceDirs(cfg, fs), TemplateFiles(ctx))

(***************************************************************************)
(* Proxy helpers (electron/utils/proxy.ts).                                *)
(*                                                                         *)
(* A proxy server and the bypass rules are texts, one symbol a character.  *)
(* An object is a function from its keys, so that a key that is left out   *)
(* is not in its domain.                                                   *)
(***************************************************************************)
Letters == {"h", "t", "p", "s"}
SchemeChars == Letters \cup {"1", "+", ".", "-"}
HTTP_PREFIX == <<"h", "t", "t", "p", ":", "/", "/">>
HTTP_RULE == <<"h", "t", "t", "p", "=">>
HTTPS_RULE == <<"h", "t", "t", "p", "s", "=">>

\* typeof value === 'string' ? value.trim() : ''
trimValue(value) == Trim(value)

\* [a-z0-9+.-]*:\/\/ matched at 0-based index i of value
RECURSIVE MatchSchemeRest(_, _)
MatchSchemeRest(value, i) ==
    IF i >= Len(value) THEN FALSE
    ELSE IF value[i + 1] \in SchemeChars THEN MatchSchemeRest(value, i + 1)
    ELSE i + 3 <= Len(value) /\ Slice(value, i, i + 3) = <<":", "/", "/">>

\* /^[a-z][a-z0-9+.-]*:\/\//i.test(value)
TestScheme(value) ==
    value # <<>> /\ value[1] \in Letters /\ MatchSchemeRest(value, 1)

normalizeProxyServer(proxyServer) ==
    LET value == trimValue(proxyServer)
    IN  IF value = <<>> THEN <<>>
        ELSE IF TestScheme(value) THEN value
        ELSE HTTP_PREFIX \o value

\* a || b on strings
OrElse(a, b) == IF a # <<>> THEN a ELSE b

\* mutant: the all-protocols proxy is preferred to the base proxy server
resolvePreferringAll(settings) ==
    LET legacyProxy == normalizeProxyServer(settings.proxyServer)
        allProxy == normalizeProxyServer(settings.proxyAllServer)
    IN  [httpProxy |-> OrElse(OrElse(normalizeProxyServer(settings.proxyHttpServer),
                                     allProxy), legacyProxy),
         httpsProxy |-> OrElse(OrElse(normalizeProxyServer(settings.proxyHttpsServer),
                                      allProxy), legacyProxy),
         allProxy |-> OrElse(allProxy, legacyProxy),
         bypassRules |-> trimValue(settings.proxyBypassRules)]

resolveProxySettings(settings) ==
    LET legacyProxy == normalizeProxyServer(settings.proxyServer)
        allProxy == normalizeProxyServer(settings.proxyAllServer)
    IN  [httpProxy |-> OrElse(OrElse(normalizeProxyServer(settings.proxyHttpServer),
                                     legacyProxy), allProxy),
         httpsProxy |-> OrElse(OrElse(normalizeProxyServer(settings.proxyHttpsServer),
                                      legacyProxy), allProxy),
         allProxy |-> OrElse(allProxy, legacyProxy),
         bypassRules |-> trimValue(settings.proxyBypassRules)]

\* Array.prototype.join(sep)
RECURSIVE JoinWith(_, _)
JoinWith(parts, sep) ==
    IF parts = <<>> THEN <<>>
    ELSE IF Len(parts) = 1 THEN parts[1]
    ELSE parts[1] \o sep \o JoinWith(Tail(parts), sep)

\* the rules array of buildElectronProxyConfig (lines 63-76)
ProxyRules(resolved) ==
    LET fallbackProxy == OrElse(OrElse(resolved.allProxy, resolved.httpsProxy),
                                resolved.httpProxy)
    IN  (IF resolved.httpProxy # <<>> THEN <<HTTP_RULE \o resolved.httpProxy>> ELSE <<>>)
        \o (IF resolved.httpsProxy # <<>> THEN <<HTTPS_RULE \o resolved.httpsProxy>> ELSE <<>>)
        \o (IF fallbackProxy # <<>> THEN <<fallbackProxy>> ELSE <<>>)

\* mutant: the bypass rules are passed on whatever they hold
buildElectronAlwaysBypass(settings) ==
    IF ~settings.proxyEnabled THEN [mode |-> "direct"]
    ELSE LET resolved == resolveProxySettings(settings)
             rules == ProxyRules(resolved)
         IN  IF Len(rules) = 0 THEN [mode |-> "direct"]
             ELSE [mode |-> "fixed_servers",
                   proxyRules |-> JoinWith(rules, <<";">>),
                   proxyBypassRules |-> resolved.bypassRules]

buildElectronProxyConfig(settings) ==
    IF ~settings.proxyEnabled THEN [mode |-> "direct"]
    ELSE LET resolved == resolveProxySettings(settings)
             rules == ProxyRules(resolved)
         IN  IF Len(rules) = 0 THEN [mode |-> "direct"]
             ELSE IF resolved.bypassRules # <<>>
             THEN [mode |-> "fixed_servers",
                   proxyRules |-> JoinWith(rules, <<";">>),
                   proxyBypassRules |-> resolved.bypassRules]
             ELSE [mode |-> "fixed_servers",
                   proxyRules |-> JoinWith(rules, <<";">>)]

\* String.prototype.split(/[,\n;]/)
RECURSIVE SplitRules(_)
SplitRules(text) ==
    IF text = <<>> THEN << <<>> >>
    ELSE LET rest == SplitRules(Tail(text))
         IN  IF Head(text) \in {",", NL, ";"} THEN << <<>> >> \o rest
             ELSE << <<Head(text)>> \o Head(rest) >> \o Tail(rest)

\* .map((rule) => rule.trim())
RECURSIVE TrimEach(_)
TrimEach(rules) ==
    IF rules = <<>> THEN <<>> ELSE <<Trim(Head(rules))>> \o TrimEach(Tail(rules))

\* .filter(Boolean)
NonEmpty(rule) == rule # <<>>

NoProxyOf(bypassRules) ==
    JoinWith(SelectSeq(TrimEach(SplitRules(bypassRules)), NonEmpty), <<",">>)

ProxyEnv(httpProxy, httpsProxy, allProxy, noProxy) ==
    [HTTP_PROXY |-> httpProxy, HTTPS_PROXY |-> httpsProxy, ALL_PROXY |-> allProxy,
     http_proxy |-> httpProxy, https_proxy |-> httpsProxy, all_proxy |-> allProxy,
     NO_PROXY |-> noProxy, no_proxy |-> noProxy]

\* mutant: the bypass rules are passed on as they were typed
buildProxyEnvRawBypass(settings) ==
    IF ~settings.proxyEnabled THEN ProxyEnv(<<>>, <<>>, <<>>, <<>>)
    ELSE LET resolved == resolveProxySettings(settings)
         IN  ProxyEnv(resolved.httpProxy, resolved.httpsProxy, resolved.allProxy,
                      resolved.bypassRules)

buildProxyEnv(settings) ==
    IF ~settings.proxyEnabled THEN ProxyEnv(<<>>, <<>>, <<>>, <<>>)
    ELSE LET resolved == resolveProxySettings(settings)
         IN  ProxyEnv(resolved.httpProxy, resolved.httpsProxy, resolved.allProxy,
                      NoProxyOf(resolved.bypassRules))

(***************************************************************************)
(* State.                                                                  *)
(***************************************************************************)
VARIABLES
    doc,        \* text: the document body the merger is applied to
    sec,        \* text: the section body
    prev,       \* text: the document body before the latest merge
    pc,         \* "input", then "merged" (one merge), then "remerged" (two)
    hollow,     \* result of the hollow test on doc: "none", "hollow" or "seeded"
    disk,       \* the file system: [files, dirs, denied]
    config,     \* ~/.openclaw/openclaw.json, parsed
    context,    \* the bundled resources/context directory
    disk0,      \* history: the file system of the initial state
    before,     \* history: the file system when the latest operation started
    written,    \* history: the paths the latest operation wrote
    threw,      \* history: the latest operation ended with an exception
    ops,        \* history: the operations run so far, oldest first
    resolved,   \* the latest result of resolveAllWorkspaceDirs, as a set
    procs,      \* the calls in progress: for each, where it is and what it read
    settings,   \* the proxy settings
    proxy       \* the latest proxy helper called and what it returned

textVars == <<doc, sec, prev, pc, hollow>>
diskVars == <<disk, config, context, disk0, before, written, threw, ops>>
vars == <<doc, sec, prev, pc, hollow, disk, config, context, disk0, before,
          written, threw, ops, resolved, procs, settings, proxy>>

NoDisk == [files |-> <<>>, dirs |-> {}, denied |-> {}]
NoConfig == [state |-> "missing",
             defaults |-> [str |-> FALSE, val |-> <<>>],
             list |-> [arr |-> FALSE, items |-> <<>>]]
NoContext == [present |-> FALSE, listable |-> FALSE, bodies |-> <<>>]

TextIdle ==
    /\ doc = <<>> /\ sec = <<>> /\ prev = <<>> /\ pc = "idle" /\ hollow = "none"

\* no call in progress
NoProcs == <<>>

NoSettings ==
    [proxyEnabled |-> FALSE, proxyServer |-> <<>>, proxyHttpServer |-> <<>>,
     proxyHttpsServer |-> <<>>, proxyAllServer |-> <<>>, proxyBypassRules |-> <<>>]
NoProxyCall == [op |-> "none"]
ProxyIdle == settings = NoSettings /\ proxy = NoProxyCall

DiskIdle ==
    /\ disk = NoDisk /\ config = NoConfig /\ context = NoContext
    /\ disk0 = NoDisk /\ before = NoDisk /\ written = {} /\ threw = FALSE
    /\ ops = <<>>

(***************************************************************************)
(* SpecText: the two text functions applied to every bounded input.        *)
(***************************************************************************)
TextInit ==
    /\ doc \in SeqsUpTo(Alphabet, MaxDocLen)
    /\ sec \in SeqsUpTo(Alphabet, MaxSecLen)
    /\ prev = doc
    /\ pc = "input"
    /\ hollow = "none"
    /\ DiskIdle
    /\ resolved = {}
    /\ procs = NoProcs
    /\ ProxyIdle

\* the document is replaced by mergeClawXSection(document, section)
Merge ==
    /\ pc \in {"input", "merged"}
    /\ doc' = mergeClawXSection(doc, sec)
    /\ prev' = doc
    /\ pc' = IF pc = "input" THEN "merged" ELSE "remerged"
    /\ hollow' = "none"
    /\ UNCHANGED <<sec, diskVars, resolved, procs, settings, proxy>>

\* the hollow test is applied to the document
TestHollow ==
    /\ pc # "idle"
    /\ hollow = "none"
    /\ hollow' = IF IsHollowBootstrap(doc) THEN "hollow" ELSE "seeded"
    /\ UNCHANGED <<doc, sec, prev, pc, diskVars, resolved, procs, settings, proxy>>

TextNext == Merge \/ TestHollow

SpecText == TextInit /\ [][TextNext]_vars

(***************************************************************************)
(* Spec: repairClawXOnlyBootstrapFiles and ensureClawXContext run one      *)
(* after the other, in any order, on a file system nobody else writes.     *)
(***************************************************************************)
W1 == Join(homedir, <<"w1">>)
AGENTS_MD == <<"AGENTS", ".md">>
TOOLS_MD == <<"TOOLS", ".md">>
NOTES_TXT == <<"notes", ".txt">>
AGENTS_TEMPLATE == <<"AGENTS", ".clawx", ".md">>
TOOLS_TEMPLATE == <<"TOOLS", ".clawx", ".md">>
README_MD == <<"README", ".md">>

HollowSample == CLAWX_BEGIN \o <<NL, "x", NL>> \o CLAWX_END

\* a file that may be absent
Absent == [some |-> FALSE, text |-> <<>>]
Present(t) == [some |-> TRUE, text |-> t]
Maybe(texts) == {Absent} \cup {Present(t) : t \in texts}

\* the function holding the present files among slots, a set of <<path, file>>
FilesOf(slots) ==
    LET here == {sl \in slots : sl[2].some}
    IN  [p \in {sl[1] : sl \in here} |-> (CHOOSE sl \in here : sl[1] = p)[2].text]

\* the configuration document declaring one agent with workspace ~/w1
DeclaresW1 ==
    [state |-> "parsed",
     defaults |-> [str |-> FALSE, val |-> <<>>],
     list |-> [arr |-> TRUE, items |-> <<[str |-> TRUE, val |-> <<"~", "/", "w1">>]>>]]

\* the bodies of the bundled AGENTS template
TemplateBodies == {<<"x">>, <<SP, "x", NL>>, <<>>, CLAWX_END}

Bundled(body) ==
    [present |-> TRUE, listable |-> TRUE,
     bodies |-> FilesOf({<<AGENTS_TEMPLATE, Present(body)>>,
                         <<TOOLS_TEMPLATE, Present(<<"x">>)>>,
                         <<README_MD, Present(<<"x">>)>>})]

Init ==
    /\ TextIdle
    /\ resolved = {}
    /\ procs = NoProcs
    /\ ProxyIdle
    /\ config \in {NoConfig, DeclaresW1}
    /\ context \in {NoContext} \cup {Bundled(b) : b \in TemplateBodies}
    /\ \E hasW1 \in BOOLEAN, defaultKind \in {"absent", "empty", "seeded"},
          agents \in Maybe(SeqsUpTo(Alphabet, MaxFileLen)),
          notes \in Maybe({HollowSample}) :
        disk = [files |-> FilesOf(
                    (IF hasW1 THEN {<<Join(W1, AGENTS_MD), agents>>,
                                    <<Join(W1, NOTES_TXT), notes>>}
                     ELSE {})
                    \cup (IF defaultKind = "seeded"
                          THEN {<<Join(defaultWorkspace, AGENTS_MD), Present(HollowSample)>>,
                                <<Join(defaultWorkspace, TOOLS_MD), Present(<<"x", NL>>)>>}
                          ELSE {})),
                dirs |-> {homedir, openclawDir}
                         \cup (IF hasW1 THEN {W1} ELSE {})
                         \cup (IF defaultKind # "absent" THEN {defaultWorkspace} ELSE {}),
                denied |-> {}]
    /\ disk0 = disk
    /\ before = disk
    /\ written = {}
    /\ threw = FALSE
    /\ ops = <<>>

\* one call of ensureClawXContext()
Sync ==
    /\ Len(ops) < MaxRuns
    /\ LET run == ensureClawXContext(config, disk, context)
       IN  /\ disk' = run.fs
           /\ written' = run.written
           /\ threw' = run.threw
    /\ before' = disk
    /\ ops' = Append(ops, "sync")
    /\ UNCHANGED <<textVars, config, context, disk0, resolved, procs, settings, proxy>>

\* one call of repairClawXOnlyBootstrapFiles()
Repair ==
    /\ Len(ops) < MaxRuns
    /\ disk' = repairClawXOnlyBootstrapFiles(config, disk)
    /\ written' = {}
    /\ threw' = FALSE
    /\ before' = disk
    /\ ops' = Append(ops, "repair")
    /\ UNCHANGED <<textVars, config, context, disk0, resolved, procs, settings, proxy>>

Next == Sync \/ Repair

Spec == Init /\ [][Next]_vars

(***************************************************************************)
(* SpecRepeat: ensureClawXContext called again and again on a file system  *)
(* nobody else writes, from the initial states of Spec.                    *)
(***************************************************************************)
\* one more call of ensureClawXContext()
SyncAgain ==
    /\ Len(ops) < MaxSyncs
    /\ LET run == ensureClawXContext(config, disk, context)
       IN  /\ disk' = run.fs
           /\ written' = run.written
           /\ threw' = run.threw
    /\ before' = disk
    /\ ops' = Append(ops, "sync")
    /\ UNCHANGED <<textVars, config, context, disk0, resolved, procs, settings, proxy>>

RepeatNext == SyncAgain

SpecRepeat == Init /\ [][RepeatNext]_vars

(***************************************************************************)
(* SpecFaults: the two operations run on a file system that refuses some   *)
(* operations: creating or listing ~/w1, reading, writing or deleting a     *)
(* document.  ~/w1 is declared by the configuration document, so it is     *)
(* worked on before the default workspace the scan finds.                  *)
(***************************************************************************)
Faults ==
    {<<W1, "mkdir">>, <<W1, "list">>,
     <<Join(W1, AGENTS_MD), "read">>, <<Join(W1, AGENTS_MD), "write">>,
     <<Join(W1, AGENTS_MD), "unlink">>,
     <<Join(defaultWorkspace, AGENTS_MD), "unlink">>}

\* the documents a workspace may hold at the start
SeededOrHollow == Maybe({HollowSample, <<"x", NL>>})

FaultInit ==
    /\ TextIdle
    /\ resolved = {}
    /\ procs = NoProcs
    /\ ProxyIdle
    /\ config = DeclaresW1
    /\ context = Bundled(<<"x">>)
    /\ \E hasW1, hasDefault \in BOOLEAN,
          agents1, agents0 \in SeededOrHollow,
          tools1, tools0 \in Maybe({HollowSample}),
          refused \in SUBSET Faults :
        disk = [files |-> FilesOf(
                    (IF hasW1 THEN {<<Join(W1, AGENTS_MD), agents1>>,
                                    <<Join(W1, TOOLS_MD), tools1>>}
                     ELSE {})
                    \cup (IF hasDefault
                          THEN {<<Join(defaultWorkspace, AGENTS_MD), agents0>>,
                                <<Join(defaultWorkspace, TOOLS_MD), tools0>>}
                          ELSE {})),
                dirs |-> {homedir, openclawDir}
                         \cup (IF hasW1 THEN {W1} ELSE {})
                         \cup (IF hasDefault THEN {defaultWorkspace} ELSE {}),
                denied |-> refused]
    /\ disk0 = disk
    /\ before = disk
    /\ written = {}
    /\ threw = FALSE
    /\ ops = <<>>

FaultNext == Sync \/ Repair

SpecFaults == FaultInit /\ [][FaultNext]_vars

(***************************************************************************)
(* SpecRace: two calls of ensureClawXContext at the same time, as two      *)
(* instances of the application make them, on one target document and one  *)
(* template.  A call is followed through lines 152-164: the existence      *)
(* check, the read and the write are steps of their own, each atomic, and  *)
(* the steps of the two calls interleave in every order.                   *)
(***************************************************************************)
RaceProcs == {"first", "second"}
RaceTarget == Join(W1, AGENTS_MD)

\* a document with no marker, or with one BEGIN and, after it, one END
IsWellFormed(d) ==
    LET begins == {i \in 1..Len(d) : d[i] = CLAWX_BEGIN[1]}
        ends == {i \in 1..Len(d) : d[i] = CLAWX_END[1]}
    IN  \/ begins = {} /\ ends = {}
        \/ /\ Cardinality(begins) = 1 /\ Cardinality(ends) = 1
           /\ \A i \in begins : \A j \in ends : i < j

RaceInit ==
    /\ TextIdle
    /\ ProxyIdle
    /\ resolved = {}
    /\ config = DeclaresW1
    /\ context \in {Bundled(b) : b \in TemplateBodies}
    /\ \E d \in {t \in SeqsUpTo(Alphabet, MaxDocLen) : IsWellFormed(t)} :
        disk = [files |-> FilesOf({<<RaceTarget, Present(d)>>}),
                dirs |-> {homedir, W1},
                denied |-> {}]
    /\ disk0 = disk
    /\ before = disk
    /\ written = {}
    /\ threw = FALSE
    /\ ops = <<>>
    /\ procs = [i \in RaceProcs |-> [pc |-> "check", existing |-> <<>>]]

RaceFrame == UNCHANGED <<textVars, config, context, disk0, before, written, threw, ops,
                         resolved, settings, proxy>>

\* if (!existsSync(targetPath)) continue (lines 152-155)
CheckTarget(i) ==
    /\ procs[i].pc = "check"
    /\ procs' = [procs EXCEPT ![i].pc = IF existsSync(disk, RaceTarget) THEN "read" ELSE "done"]
    /\ UNCHANGED disk
    /\ RaceFrame

\* the two readFileSync, the merge and the comparison (lines 157-161)
ReadTarget(i) ==
    /\ procs[i].pc = "read"
    /\ procs' = [procs EXCEPT ![i] =
           IF ~CanRead(disk, RaceTarget) THEN [pc |-> "threw", existing |-> <<>>]
           ELSE LET existing == disk.files[RaceTarget]
                    merged == mergeClawXSection(existing, context.bodies[AGENTS_TEMPLATE])
                IN  [pc |-> IF merged # existing THEN "write" ELSE "done",
                     existing |-> existing]]
    /\ UNCHANGED disk
    /\ RaceFrame

\* writeFileSync(targetPath, merged) (line 162): the file is created if it
\* is no longer there
WriteTarget(i) ==
    /\ procs[i].pc = "write"
    /\ LET merged == mergeClawXSection(procs[i].existing, context.bodies[AGENTS_TEMPLATE])
           refused == <<RaceTarget, "write">> \in disk.denied \/ RaceTarget \in disk.dirs
       IN  /\ disk' = IF refused THEN disk
                      ELSE [disk EXCEPT !.files =
                               [p \in DOMAIN @ \cup {RaceTarget} |->
                                   IF p = RaceTarget THEN merged ELSE @[p]]]
           /\ procs' = [procs EXCEPT ![i].pc = IF refused THEN "threw" ELSE "done"]
    /\ RaceFrame

RaceNext == \E i \in RaceProcs : CheckTarget(i) \/ ReadTarget(i) \/ WriteTarget(i)

SpecRace == RaceInit /\ [][RaceNext]_vars

(***************************************************************************)
(* SpecRepairRace: one repair pass over the workspace ~/w1, stepping       *)
(* through its file operations on ~/w1/AGENTS.md (readdirSync,             *)
(* readFileSync, unlinkSync), while the runtime, an uncoordinated writer   *)
(* of the same file, seeds it.  ops is the order of the steps taken;       *)
(* procs holds the position of the pass, the text it read and the text     *)
(* the file held when it was unlinked.                                     *)
(***************************************************************************)
MaxSeeds == 2

\* what the runtime writes into a bootstrap document
SeedTexts == {<<"x", NL>>, <<"x", "x", NL>>}

RepairRaceInit ==
    /\ TextIdle
    /\ ProxyIdle
    /\ resolved = {}
    /\ config = DeclaresW1
    /\ context = NoContext
    /\ \E f \in Maybe({t \in SeqsUpTo(Alphabet, MaxDocLen) : IsWellFormed(t)}) :
        disk = [files |-> FilesOf({<<RaceTarget, f>>}),
                dirs |-> {homedir, W1},
                denied |-> {}]
    /\ disk0 = disk
    /\ before = disk
    /\ written = {}
    /\ threw = FALSE
    /\ ops = <<>>
    /\ procs = [pc |-> "list", content |-> <<>>, removed |-> <<>>]

RepairRaceFrame == UNCHANGED <<textVars, config, context, disk0, before, written, threw,
                               resolved, settings, proxy>>

\* existsSync(workspaceDir) and readdirSync(workspaceDir).filter(*.md)
\* (lines 35-41)
ListWorkspace ==
    /\ procs.pc = "list"
    /\ procs' = [procs EXCEPT !.pc =
           IF existsSync(disk, W1) /\ CanList(disk, W1) /\ AGENTS_MD \in Entries(disk, W1)
           THEN "read" ELSE "done"]
    /\ ops' = Append(ops, "list")
    /\ UNCHANGED disk
    /\ RepairRaceFrame

\* readFileSync(filePath) and the hollow test (lines 43-56)
ReadDocument ==
    /\ procs.pc = "read"
    /\ procs' = IF ~CanRead(disk, RaceTarget) THEN [procs EXCEPT !.pc = "done"]
                ELSE LET content == disk.files[RaceTarget]
                     IN  [procs EXCEPT !.content = content,
                                       !.pc = IF IsHollowBootstrap(content)
                                              THEN "unlink" ELSE "done"]
    /\ ops' = Append(ops, "read")
    /\ UNCHANGED disk
    /\ RepairRaceFrame

\* unlinkSync(filePath) inside its try (lines 57-62): the file is removed
\* whatever it holds by now
UnlinkDocument ==
    /\ procs.pc = "unlink"
    /\ IF CanUnlink(disk, RaceTarget)
       THEN /\ disk' = [disk EXCEPT !.files = Remove(@, {RaceTarget})]
            /\ procs' = [procs EXCEPT !.pc = "done", !.removed = <<disk.files[RaceTarget]>>]
       ELSE /\ disk' = disk
            /\ procs' = [procs EXCEPT !.pc = "done"]
    /\ ops' = Append(ops, "unlink")
    /\ RepairRaceFrame

\* the runtime writes the document, creating it when it is not there
RuntimeSeeds ==
    /\ Cardinality({k \in 1..Len(ops) : ops[k] = "seed"}) < MaxSeeds
    /\ \E t \in SeedTexts :
        disk' = [disk EXCEPT !.files =
                    [p \in DOMAIN @ \cup {RaceTarget} |->
                        IF p = RaceTarget THEN t ELSE @[p]]]
    /\ ops' = Append(ops, "seed")
    /\ UNCHANGED procs
    /\ RepairRaceFrame

RepairRaceNext == ListWorkspace \/ ReadDocument \/ UnlinkDocument \/ RuntimeSeeds

SpecRepairRace == RepairRaceInit /\ [][RepairRaceNext]_vars

(***************************************************************************)
(* SpecSyncDelete: one sync stepping through its file operations on        *)
(* ~/w1/AGENTS.md (existsSync, readFileSync, writeFileSync) while another  *)
(* process, the runtime or a repair pass, may remove the file.             *)
(***************************************************************************)
SyncDeleteInit ==
    /\ TextIdle
    /\ ProxyIdle
    /\ resolved = {}
    /\ config = DeclaresW1
    /\ context \in {Bundled(b) : b \in TemplateBodies}
    /\ \E f \in Maybe({t \in SeqsUpTo(Alphabet, MaxDocLen) : IsWellFormed(t)}) :
        disk = [files |-> FilesOf({<<RaceTarget, f>>}),
                dirs |-> {homedir, W1},
                denied |-> {}]
    /\ disk0 = disk
    /\ before = disk
    /\ written = {}
    /\ threw = FALSE
    /\ ops = <<>>
    /\ procs = [i \in {"first"} |-> [pc |-> "check", existing |-> <<>>]]

\* unlinkSync(filePath) of another process: the runtime removes any
\* document, a repair pass one that is hollow (line 58)
DeleteTarget ==
    /\ CanUnlink(disk, RaceTarget)
    /\ disk' = [disk EXCEPT !.files = Remove(@, {RaceTarget})]
    /\ UNCHANGED procs
    /\ RaceFrame

SyncDeleteNext ==
    CheckTarget("first") \/ ReadTarget("first") \/ WriteTarget("first") \/ DeleteTarget

SpecSyncDelete == SyncDeleteInit /\ [][SyncDeleteNext]_vars

(***************************************************************************)
(* SpecResolve: resolveAllWorkspaceDirs on every bounded configuration     *)
(* document and every state of ~/.openclaw.                                *)
(***************************************************************************)
NotAString == [str |-> FALSE, val |-> <<>>]

\* the values of a workspace field: not a string, empty, blank, ~/w1, the
\* same directory spelled out, and the default workspace with the shorthand
WorkspaceFields ==
    {NotAString} \cup
    {[str |-> TRUE, val |-> v] :
        v \in {<<>>, <<SP>>, <<"~", "/", "w1">>, W1,
               <<"~", "/", ".openclaw", "/", "workspace">>}}

Configs ==
    {[NoConfig EXCEPT !.state = st] : st \in {"missing", "malformed"}} \cup
    {[state |-> "parsed", defaults |-> d, list |-> [arr |-> a, items |-> it]] :
        d \in WorkspaceFields, a \in BOOLEAN, it \in SeqsUpTo(WorkspaceFields, MaxAgents)}

\* what may lie in ~/.openclaw: two workspace directories, a directory and
\* a regular file that are none
BaseDirs == {defaultWorkspace, Join(openclawDir, <<"workspace", "-a">>),
             Join(openclawDir, <<"agents">>)}
BaseFile == Join(openclawDir, <<"workspace", ".bak">>)

ResolveInit ==
    /\ TextIdle
    /\ config \in Configs
    /\ context = NoContext
    /\ \E base \in {"missing", "file", "unreadable", "readable"},
          sub \in SUBSET BaseDirs, bak \in BOOLEAN :
        /\ (base \in {"missing", "file"} => sub = {} /\ ~bak)
        /\ disk = [files |-> FilesOf({<<openclawDir, IF base = "file" THEN Present(<<>>) ELSE Absent>>,
                                      <<BaseFile, IF bak THEN Present(<<>>) ELSE Absent>>}),
                   dirs |-> {homedir} \cup sub
                            \cup (IF base \in {"unreadable", "readable"} THEN {openclawDir} ELSE {}),
                   denied |-> IF base = "unreadable" THEN {<<openclawDir, "list">>} ELSE {}]
    /\ disk0 = disk
    /\ before = disk
    /\ written = {}
    /\ threw = FALSE
    /\ ops = <<>>
    /\ resolved = {}
    /\ procs = NoProcs
    /\ ProxyIdle

\* one call of resolveAllWorkspaceDirs()
Resolve ==
    /\ ops = <<>>
    /\ resolved' = Range(resolveAllWorkspaceDirs(config, disk))
    /\ ops' = <<"resolve">>
    /\ UNCHANGED <<textVars, disk, config, context, disk0, before, written, threw, procs, settings, proxy>>

ResolveNext == Resolve

SpecResolve == ResolveInit /\ [][ResolveNext]_vars

(***************************************************************************)
(* SpecProxy: the three proxy helpers applied to bounded settings: every   *)
(* combination of sample values of the four server fields, every bounded   *)
(* text as the base proxy server, every bounded text as the bypass rules.  *)
(***************************************************************************)
ServerAlphabet == {"h", "1", ":", "/", SP}
BypassAlphabet == {"x", ",", ";", NL, SP}

\* empty, blank, a bare host, a bare host:port, a URL with a scheme, and a
\* bare host:port with white space around it
ServerSamples ==
    {<<>>, <<SP>>, <<"h">>, <<"1", ":", "1">>, <<"s", ":", "/", "/", "1">>,
     <<SP, "h", ":", "1", NL>>}

BypassSamples == {<<>>, <<SP>>, <<"x">>}

ProxyInit ==
    /\ TextIdle
    /\ DiskIdle
    /\ resolved = {}
    /\ procs = NoProcs
    /\ proxy = NoProxyCall
    /\ \E enabled \in BOOLEAN :
        \/ \E base, http, https, all \in ServerSamples, bypass \in BypassSamples :
              settings = [proxyEnabled |-> enabled, proxyServer |-> base,
                          proxyHttpServer |-> http, proxyHttpsServer |-> https,
                          proxyAllServer |-> all, proxyBypassRules |-> bypass]
        \/ \E base \in SeqsUpTo(ServerAlphabet, MaxServerLen) :
              settings = [NoSettings EXCEPT !.proxyEnabled = enabled, !.proxyServer = base]
        \/ \E bypass \in SeqsUpTo(BypassAlphabet, MaxBypassLen) :
              settings = [NoSettings EXCEPT !.proxyEnabled = enabled,
                                            !.proxyServer = <<"1", ":", "1">>,
                                            !.proxyBypassRules = bypass]

ProxyFrame == UNCHANGED <<textVars, diskVars, resolved, procs, settings>>

\* one call of resolveProxySettings(settings)
ResolveProxy ==
    /\ proxy.op = "none"
    /\ proxy' = [op |-> "resolve", out |-> resolveProxySettings(settings)]
    /\ ProxyFrame

\* one call of buildElectronProxyConfig(settings)
BuildElectron ==
    /\ proxy.op = "none"
    /\ proxy' = [op |-> "electron", out |-> buildElectronProxyConfig(settings)]
    /\ ProxyFrame

\* one call of buildProxyEnv(settings)
BuildEnv ==
    /\ proxy.op = "none"
    /\ proxy' = [op |-> "env", out |-> buildProxyEnv(settings)]
    /\ ProxyFrame

ProxyNext == ResolveProxy \/ BuildElectron \/ BuildEnv

SpecProxy == ProxyInit /\ [][ProxyNext]_vars

(***************************************************************************)
(* Vocabulary of the properties: occurrences and blank text stated by      *)
(* position, independently of the searches and trims above.                *)
(***************************************************************************)
OccursAt(s, m, i) == i + Len(m) <= Len(s) /\ \A k \in 1..Len(m) : s[i + k] = m[k]

Occurs(s, m) == \E i \in 0..Len(s) : OccursAt(s, m, i)

FirstAt(s, m, i) == OccursAt(s, m, i) /\ \A k \in 0..(i - 1) : ~OccursAt(s, m, k)

AllBlank(s) == \A k \in 1..Len(s) : s[k] \in {SP, NL}

\* SubSeq(s, 1, n) is s without its trailing white space
TrimEndsAt(s, n) ==
    /\ n \in 0..Len(s)
    /\ AllBlank(SubSeq(s, n + 1, Len(s)))
    /\ (n > 0 => ~AllBlank(<<s[n]>>))

\* SubSeq(s, a + 1, n) is s without its leading and trailing white space
TrimSpans(s, a, n) ==
    /\ a \in 0..Len(s) /\ n \in a..Len(s)
    /\ AllBlank(SubSeq(s, 1, a))
    /\ AllBlank(SubSeq(s, n + 1, Len(s)))
    /\ (a < n => ~AllBlank(<<s[a + 1]>>) /\ ~AllBlank(<<s[n]>>))

\* w is the canonical wrapped section of s: BEGIN, newline, trim(s), newline, END
IsCanonicalSection(w, s) ==
    \E a, n \in 0..Len(s) :
        /\ TrimSpans(s, a, n)
        /\ w = CLAWX_BEGIN \o <<NL>> \o SubSeq(s, a + 1, n) \o <<NL>> \o CLAWX_END

\* d is head + w + tail for the canonical wrapped section w of s
IsAround(d, head, s, tail) ==
    /\ Len(d) >= Len(head) + Len(tail)
    /\ SubSeq(d, 1, Len(head)) = head
    /\ SubSeq(d, Len(d) - Len(tail) + 1, Len(d)) = tail
    /\ IsCanonicalSection(SubSeq(d, Len(head) + 1, Len(d) - Len(tail)), s)

\* d = prefix + BEGIN + old + END + suffix with BEGIN at i and END at j
SplitsAt(d, i, j) ==
    /\ OccursAt(d, CLAWX_BEGIN, i)
    /\ OccursAt(d, CLAWX_END, j)
    /\ i + Len(CLAWX_BEGIN) <= j

PrefixOf(d, i) == SubSeq(d, 1, i)
SuffixOf(d, j) == SubSeq(d, j + Len(CLAWX_END) + 1, Len(d))

(***************************************************************************)
(* C1.  Idempotence: merging the same section into the output of a merge   *)
(* gives that output again, for every document and every section.          *)
(***************************************************************************)
MergeIdempotent == pc = "remerged" => doc = prev

(***************************************************************************)
(* C2, as stated.  Replace in place for every way of writing the document  *)
(* as prefix + BEGIN + old + END + suffix: the merge is prefix + canonical  *)
(* wrapped section + suffix.                                               *)
(***************************************************************************)
ReplaceInPlaceAnySplit ==
    pc = "merged" =>
        \A i, j \in 0..Len(prev) :
            SplitsAt(prev, i, j) =>
                IsAround(doc, PrefixOf(prev, i), sec, SuffixOf(prev, j))

(***************************************************************************)
(* C2, amended.  Replace in place when the BEGIN and END of the split are   *)
(* the first occurrences of the two markers in the document: the merge is  *)
(* prefix + canonical wrapped section + suffix.                            *)
(***************************************************************************)
ReplaceInPlaceFirstSplit ==
    pc = "merged" =>
        \A i, j \in 0..Len(prev) :
            (/\ SplitsAt(prev, i, j)
             /\ FirstAt(prev, CLAWX_BEGIN, i)
             /\ FirstAt(prev, CLAWX_END, j)) =>
                IsAround(doc, PrefixOf(prev, i), sec, SuffixOf(prev, j))

\* a document with text before and after its section has had it replaced
ReplaceInPlaceWitness ==
    /\ pc = "merged"
    /\ doc # prev
    /\ \E i, j \in 0..Len(prev) :
        /\ SplitsAt(prev, i, j)
        /\ FirstAt(prev, CLAWX_BEGIN, i)
        /\ FirstAt(prev, CLAWX_END, j)
        /\ ~AllBlank(PrefixOf(prev, i))
        /\ ~AllBlank(SuffixOf(prev, j))

(***************************************************************************)
(* C3.  Append when absent: when at least one of the two markers does not  *)
(* occur in the document, the merge is trimEnd(document) + two newlines +  *)
(* canonical wrapped section + one newline.                                *)
(***************************************************************************)
AppendWhenAbsent ==
    (/\ pc = "merged"
     /\ (~Occurs(prev, CLAWX_BEGIN) \/ ~Occurs(prev, CLAWX_END))) =>
        \E n \in 0..Len(prev) :
            /\ TrimEndsAt(prev, n)
            /\ IsAround(doc, SubSeq(prev, 1, n) \o <<NL, NL>>, sec, <<NL>>)

\* a document holding exactly one of the markers, and trailing white space,
\* has had the section appended
AppendWhenAbsentWitness ==
    /\ pc = "merged"
    /\ Occurs(prev, CLAWX_BEGIN) # Occurs(prev, CLAWX_END)
    /\ prev # <<>> /\ AllBlank(<<prev[Len(prev)]>>)
    /\ ~AllBlank(prev)

(***************************************************************************)
(* C8.  The hollow test is true exactly when both markers occur in the     *)
(* content and the text before the first BEGIN and the text after the      *)
(* first END are both blank; it is false when a marker is missing and when *)
(* any non-blank text lies before the section or after it.                 *)
(***************************************************************************)
HollowByPosition(content) ==
    \E i \in 0..Len(content) :
        /\ FirstAt(content, CLAWX_BEGIN, i)
        /\ AllBlank(SubSeq(content, 1, i))
        /\ \E j \in 0..Len(content) :
            /\ FirstAt(content, CLAWX_END, j)
            /\ AllBlank(SubSeq(content, j + Len(CLAWX_END) + 1, Len(content)))

\* the test on three sample documents: a section alone, a section after
\* text, and text alone
HollowOnSamples ==
    /\ IsHollowBootstrap(CLAWX_BEGIN \o <<NL, "x", NL>> \o CLAWX_END)
    /\ ~IsHollowBootstrap(<<"x", NL>> \o CLAWX_BEGIN \o <<NL, "x", NL>> \o CLAWX_END)
    /\ ~IsHollowBootstrap(<<"x", NL>>)

HollowExact ==
    /\ hollow # "none" => (hollow = "hollow" <=> HollowByPosition(doc))
    /\ HollowOnSamples

\* a document with blank text before and after its section has been found hollow
HollowExactWitness ==
    /\ hollow = "hollow"
    /\ pc = "input"
    /\ doc # <<>> /\ AllBlank(<<doc[1]>>) /\ AllBlank(<<doc[Len(doc)]>>)

(***************************************************************************)
(* Vocabulary of the properties about runs.                                *)
(***************************************************************************)
LastOp == IF ops = <<>> THEN "none" ELSE ops[Len(ops)]

\* the workspaces an operation started in file system fs works on
Discovered(fs) == Range(resolveAllWorkspaceDirs(config, fs))

\* the bundled templates: the files of the context directory named *.clawx.md
Templates ==
    IF context.present /\ context.listable
    THEN {f \in DOMAIN context.bodies : EndsWith(f, <<".clawx", ".md">>)}
    ELSE {}

\* the sections that are due in the document at path p of file system fs
DueIn(fs, p) ==
    {context.bodies[t] : t \in {f \in Templates :
        \E ws \in Discovered(fs) : p = Join(ws, TargetName(f))}}

\* the canonical wrapped section of s occurs in d
HoldsSection(d, s) ==
    \E i \in 0..Len(d) :
        /\ OccursAt(d, CLAWX_BEGIN, i)
        /\ \E j \in (i + Len(CLAWX_BEGIN) + Len(CLAWX_END))..Len(d) :
            /\ OccursAt(d, CLAWX_END, j - Len(CLAWX_END))
            /\ IsCanonicalSection(SubSeq(d, i + 1, j), s)

\* p is a file with the document extension right inside directory ws
IsDocumentOf(p, ws) ==
    /\ StartsWith(p, ws \o <<"/">>)
    /\ Len(p) > Len(ws) + 1
    /\ "/" \notin Range(SubSeq(p, Len(ws) + 2, Len(p)))
    /\ p[Len(p)] = ".md"

(***************************************************************************)
(* C4.  No document creation: whatever sequence of syncs and repairs has   *)
(* run, every file that exists existed in the initial state; a run never   *)
(* brings a file into existence.                                           *)
(***************************************************************************)
NoDocumentCreation ==
    /\ DOMAIN disk.files \subseteq DOMAIN before.files
    /\ DOMAIN disk.files \subseteq DOMAIN disk0.files

\* a sync with bundled templates has created a workspace directory and
\* left it without any document
NoDocumentCreationWitness ==
    /\ LastOp = "sync"
    /\ Templates # {}
    /\ \E ws \in Discovered(before) :
        /\ ws \notin before.dirs
        /\ ws \in disk.dirs
        /\ \A p \in DOMAIN disk.files : ~IsDocumentOf(p, ws)

(***************************************************************************)
(* C5.  Section presence after sync: after a sync that ended without an    *)
(* exception, every target document that existed when it started, in every *)
(* discovered workspace and for every bundled template, still exists and   *)
(* holds the canonical wrapped section of that template's body.            *)
(***************************************************************************)
SectionPresentAfterSync ==
    (LastOp = "sync" /\ ~threw) =>
        \A p \in DOMAIN before.files :
            \A s \in DueIn(before, p) :
                p \in DOMAIN disk.files /\ HoldsSection(disk.files[p], s)

\* a sync has put the section into two documents that did not hold it
SectionPresentWitness ==
    /\ LastOp = "sync" /\ ~threw
    /\ Cardinality({p \in DOMAIN before.files :
           \E s \in DueIn(before, p) : ~HoldsSection(before.files[p], s)}) >= 2

(***************************************************************************)
(* C6.  A sync writes a target only if the merged text differs from the    *)
(* text it read: the written paths are exactly the files whose content     *)
(* changed, and a target whose content already equals its merge is not     *)
(* written.                                                                *)
(***************************************************************************)
WritesOnlyChanges ==
    LastOp = "sync" =>
        /\ \A p \in written :
               p \in DOMAIN before.files /\ disk.files[p] # before.files[p]
        /\ \A p \in DOMAIN before.files :
               (\A s \in DueIn(before, p) :
                    mergeClawXSection(before.files[p], s) = before.files[p])
                   => p \notin written

\* a sync has met one target that was up to date, and left it, and one
\* that was not, and written it
WritesOnlyChangesWitness ==
    /\ LastOp = "sync"
    /\ written # {}
    /\ \E p \in DOMAIN before.files \ written :
        /\ DueIn(before, p) # {}
        /\ \A s \in DueIn(before, p) : mergeClawXSection(before.files[p], s) = before.files[p]

(***************************************************************************)
(* C7.  Second run is a no-op: for a target that initially holds no marker *)
(* and a template body that holds none, the first sync leaves              *)
(* trimEnd(old) + two newlines + wrapped section + newline, and a second   *)
(* sync writes nothing and leaves the content as it is.                    *)
(***************************************************************************)
MarkerFree(s) == ~Occurs(s, CLAWX_BEGIN) /\ ~Occurs(s, CLAWX_END)

SecondSyncNoOp ==
    (ops = <<"sync", "sync">> /\ ~threw) =>
        \A p \in DOMAIN disk0.files :
            \A s \in DueIn(disk0, p) :
                (MarkerFree(disk0.files[p]) /\ MarkerFree(s)) =>
                    /\ \E n \in 0..Len(disk0.files[p]) :
                        /\ TrimEndsAt(disk0.files[p], n)
                        /\ IsAround(before.files[p],
                                    SubSeq(disk0.files[p], 1, n) \o <<NL, NL>>, s, <<NL>>)
                    /\ disk.files[p] = before.files[p]
                    /\ p \notin written

\* two syncs have run on a seeded document that ended with a line break
SecondSyncNoOpWitness ==
    /\ ops = <<"sync", "sync">> /\ ~threw
    /\ \E p \in DOMAIN disk0.files :
        /\ DueIn(disk0, p) # {}
        /\ \A s \in DueIn(disk0, p) : MarkerFree(s) /\ ~AllBlank(s)
        /\ disk0.files[p] = <<"x", NL>>
        /\ before.files[p] # disk0.files[p]

(***************************************************************************)
(* C9.  A repair deletes exactly the hollow documents: after it, a file is *)
(* gone iff it was a document right inside an existing discovered          *)
(* workspace and hollow; every other file keeps its content; and a sync    *)
(* that follows does not bring a deleted file back.                        *)
(***************************************************************************)
RepairDeletesHollow ==
    /\ LastOp = "repair" =>
        /\ \A p \in DOMAIN before.files :
            /\ p \notin DOMAIN disk.files <=>
                   /\ \E ws \in Discovered(before) \cap before.dirs : IsDocumentOf(p, ws)
                   /\ HollowByPosition(before.files[p])
            /\ p \in DOMAIN disk.files => disk.files[p] = before.files[p]
        /\ DOMAIN disk.files \subseteq DOMAIN before.files
        /\ disk.dirs = before.dirs
    /\ ops = <<"repair", "sync">> =>
        \A p \in DOMAIN disk0.files \ DOMAIN before.files : p \notin DOMAIN disk.files

\* a repair has deleted one document and kept another of the same workspace,
\* and the sync after it had a template for the deleted one
RepairDeletesHollowWitness ==
    /\ ops = <<"repair", "sync">>
    /\ \E ws \in Discovered(disk0), p, q \in DOMAIN disk0.files :
        /\ IsDocumentOf(p, ws) /\ IsDocumentOf(q, ws)
        /\ p \notin DOMAIN before.files
        /\ q \in DOMAIN before.files
        /\ \E f \in Templates : p = Join(ws, TargetName(f))

(***************************************************************************)
(* C10.  Discovery non-emptiness: resolveAllWorkspaceDirs returns at least *)
(* one path, whatever the configuration document and ~/.openclaw are.      *)
(***************************************************************************)
DiscoveryNonEmpty == ops = <<"resolve">> => resolved # {}

\* the call has returned the default workspace alone, the configuration
\* document being malformed and ~/.openclaw unreadable
DiscoveryNonEmptyWitness ==
    /\ ops = <<"resolve">>
    /\ config.state = "malformed"
    /\ <<openclawDir, "list">> \in disk.denied
    /\ resolved = {defaultWorkspace}

(***************************************************************************)
(* C11.  A sync is never fatal to its caller: no exception leaves it; a    *)
(* target whose read or write the operating system refuses is left as it   *)
(* was found, and every other target that existed, in every discovered     *)
(* workspace and for every template, is still processed and holds its      *)
(* section afterwards.                                                     *)
(***************************************************************************)
Refused(fs, p, op) == <<p, op>> \in fs.denied

SyncNeverFatal ==
    LastOp = "sync" =>
        /\ ~threw
        /\ \A p \in DOMAIN before.files :
            \A s \in DueIn(before, p) :
                /\ p \in DOMAIN disk.files
                /\ IF Refused(before, p, "read") \/ Refused(before, p, "write")
                   THEN disk.files[p] = before.files[p]
                   ELSE HoldsSection(disk.files[p], s)

(***************************************************************************)
(* C12.  A repair never aborts its pass: after it, a file is gone iff it   *)
(* was a hollow document right inside an existing discovered workspace     *)
(* that could be listed, and could be read and deleted; a workspace that   *)
(* cannot be listed, a file that cannot be read and a delete that fails    *)
(* leave that item as it was and nothing else: every other file keeps its  *)
(* content, in the same pass.                                              *)
(***************************************************************************)
RepairNeverAborts ==
    LastOp = "repair" =>
        /\ ~threw
        /\ \A p \in DOMAIN before.files :
            /\ p \notin DOMAIN disk.files <=>
                   /\ \E ws \in Discovered(before) \cap before.dirs :
                          IsDocumentOf(p, ws) /\ ~Refused(before, ws, "list")
                   /\ ~Refused(before, p, "read")
                   /\ ~Refused(before, p, "unlink")
                   /\ HollowByPosition(before.files[p])
            /\ p \in DOMAIN disk.files => disk.files[p] = before.files[p]
        /\ DOMAIN disk.files \subseteq DOMAIN before.files

\* a repair has met a hollow document of ~/w1 whose delete was refused, and
\* kept it, and has then deleted a hollow document of the default workspace
RepairNeverAbortsWitness ==
    /\ LastOp = "repair"
    /\ \E p \in DOMAIN disk.files, q \in DOMAIN before.files \ DOMAIN disk.files :
        /\ IsDocumentOf(p, W1)
        /\ HollowByPosition(before.files[p])
        /\ Refused(before, p, "unlink")
        /\ ~Refused(before, p, "read") /\ ~Refused(before, W1, "list")
        /\ IsDocumentOf(q, defaultWorkspace)

(***************************************************************************)
(* C13.  The discovery sources are isolated.  Whatever the configuration   *)
(* document is (missing and malformed included), every directory right     *)
(* below a listable ~/.openclaw whose name starts with "workspace" is      *)
(* returned; whatever ~/.openclaw is (missing and unreadable included),    *)
(* every workspace a parsed configuration document declares is returned,   *)
(* home-expanded.                                                          *)
(***************************************************************************)
\* d is a directory right below ~/.openclaw whose name starts with "workspace"
IsScannedWorkspace(fs, d) ==
    /\ d \in fs.dirs
    /\ Len(d) >= Len(openclawDir) + 2
    /\ SubSeq(d, 1, Len(openclawDir) + 1) = openclawDir \o <<"/">>
    /\ d[Len(openclawDir) + 2] = "workspace"
    /\ \A k \in (Len(openclawDir) + 2)..Len(d) : d[k] # "/"

\* the workspace fields of a parsed configuration document
DeclaredFields(cfg) ==
    IF cfg.state # "parsed" THEN {}
    ELSE {cfg.defaults} \cup
         (IF cfg.list.arr THEN {cfg.list.items[k] : k \in 1..Len(cfg.list.items)} ELSE {})

\* v with a leading "~" replaced by the home directory
HomeExpanded(v) ==
    IF v # <<>> /\ v[1] = "~" THEN homedir \o SubSeq(v, 2, Len(v)) ELSE v

DiscoverySourcesIsolated ==
    ops = <<"resolve">> =>
        /\ (openclawDir \in disk.dirs /\ ~Refused(disk, openclawDir, "list")) =>
               \A d \in disk.dirs : IsScannedWorkspace(disk, d) => d \in resolved
        /\ \A f \in DeclaredFields(config) :
               (f.str /\ ~AllBlank(f.val)) => HomeExpanded(f.val) \in resolved

\* the call has returned the two workspace directories of ~/.openclaw, the
\* configuration document being malformed
DiscoverySourcesIsolatedWitness ==
    /\ ops = <<"resolve">>
    /\ config.state = "malformed"
    /\ Cardinality({d \in disk.dirs : IsScannedWorkspace(disk, d)}) = 2
    /\ resolved = {d \in disk.dirs : IsScannedWorkspace(disk, d)}

(***************************************************************************)
(* Vocabulary of the properties about the proxy helpers: the trimmed text, *)
(* the scheme and the rules stated by position.                            *)
(***************************************************************************)
\* v without its leading and trailing white space
TrimmedByPosition(v) ==
    LET span == CHOOSE an \in (0..Len(v)) \X (0..Len(v)) : TrimSpans(v, an[1], an[2])
    IN  SubSeq(v, span[1] + 1, span[2])

\* t starts with a letter, then k - 1 scheme characters, then "://"
HasSchemeAt(t, k) ==
    /\ k + 3 <= Len(t)
    /\ t[1] \in Letters
    /\ \A i \in 2..k : t[i] \in SchemeChars
    /\ t[k + 1] = ":" /\ t[k + 2] = "/" /\ t[k + 3] = "/"

\* the normalized value of a server field: blank gives the empty text, a
\* value with a scheme is kept, a bare host:port gets http:// in front
Normalized(v) ==
    LET t == TrimmedByPosition(v)
    IN  IF t = <<>> THEN <<>>
        ELSE IF \E k \in 1..Len(t) : HasSchemeAt(t, k) THEN t
        ELSE HTTP_PREFIX \o t

\* the first text of vs that is not empty, the empty text if there is none
FirstNonBlank(vs) ==
    LET some == {k \in 1..Len(vs) : vs[k] # <<>>}
    IN  IF some = {} THEN <<>> ELSE vs[CHOOSE k \in some : \A j \in some : k <= j]

ExpectedHttp ==
    FirstNonBlank(<<Normalized(settings.proxyHttpServer), Normalized(settings.proxyServer),
                    Normalized(settings.proxyAllServer)>>)
ExpectedHttps ==
    FirstNonBlank(<<Normalized(settings.proxyHttpsServer), Normalized(settings.proxyServer),
                    Normalized(settings.proxyAllServer)>>)
ExpectedAll ==
    FirstNonBlank(<<Normalized(settings.proxyAllServer), Normalized(settings.proxyServer)>>)
ExpectedFallback == FirstNonBlank(<<ExpectedAll, ExpectedHttps, ExpectedHttp>>)

(***************************************************************************)
(* C14.  resolveProxySettings applies a fixed precedence: httpProxy is the *)
(* first non-blank of the normalized proxyHttpServer, proxyServer and      *)
(* proxyAllServer; httpsProxy the first non-blank of the normalized        *)
(* proxyHttpsServer, proxyServer and proxyAllServer; allProxy the first    *)
(* non-blank of the normalized proxyAllServer and proxyServer; normalizing *)
(* keeps a value that has a scheme and puts http:// before a bare one.     *)
(***************************************************************************)
ProxyPrecedence ==
    proxy.op = "resolve" =>
        /\ proxy.out.httpProxy = ExpectedHttp
        /\ proxy.out.httpsProxy = ExpectedHttps
        /\ proxy.out.allProxy = ExpectedAll

\* the settings held a blank proxyHttpServer, a bare base server with white
\* space around it, an all-protocols server with a scheme and an https
\* server of its own, and have been resolved
ProxyPrecedenceWitness ==
    /\ proxy.op = "resolve"
    /\ settings.proxyHttpServer = <<SP>>
    /\ settings.proxyServer = <<SP, "h", ":", "1", NL>>
    /\ settings.proxyAllServer = <<"s", ":", "/", "/", "1">>
    /\ settings.proxyHttpsServer = <<"1", ":", "1">>
    /\ proxy.out.httpProxy = HTTP_PREFIX \o <<"h", ":", "1">>
    /\ proxy.out.allProxy = <<"s", ":", "/", "/", "1">>

(***************************************************************************)
(* C15, as stated.  buildElectronProxyConfig returns exactly               *)
(* {mode: 'direct'} when proxyEnabled is false; when enabled with at least *)
(* one non-blank server field it returns mode 'fixed_servers' with         *)
(* proxyRules 'http=' + httpProxy, 'https=' + httpsProxy and the fallback  *)
(* (allProxy, else httpsProxy, else httpProxy) joined by ';', and          *)
(* proxyBypassRules present only when the trimmed bypass rules are not     *)
(* empty.                                                                  *)
(***************************************************************************)
SomeServer ==
    \/ ~AllBlank(settings.proxyServer) \/ ~AllBlank(settings.proxyHttpServer)
    \/ ~AllBlank(settings.proxyHttpsServer) \/ ~AllBlank(settings.proxyAllServer)

ElectronConfigAllRules ==
    proxy.op = "electron" =>
        /\ ~settings.proxyEnabled => proxy.out = [mode |-> "direct"]
        /\ (settings.proxyEnabled /\ SomeServer) =>
            /\ {"mode", "proxyRules"} \subseteq DOMAIN proxy.out
            /\ proxy.out.mode = "fixed_servers"
            /\ proxy.out.proxyRules =
                   HTTP_RULE \o ExpectedHttp \o <<";">>
                   \o HTTPS_RULE \o ExpectedHttps \o <<";">> \o ExpectedFallback
            /\ "proxyBypassRules" \in DOMAIN proxy.out <=> ~AllBlank(settings.proxyBypassRules)

(***************************************************************************)
(* C15, amended.  As stated, except that the 'http=' rule is present only  *)
(* when httpProxy is not empty and the 'https=' rule only when httpsProxy  *)
(* is not empty; the rules that are present keep the stated order and are  *)
(* joined by ';'.                                                          *)
(***************************************************************************)
ElectronConfigPresentRules ==
    proxy.op = "electron" =>
        /\ ~settings.proxyEnabled => proxy.out = [mode |-> "direct"]
        /\ (settings.proxyEnabled /\ SomeServer) =>
            /\ {"mode", "proxyRules"} \subseteq DOMAIN proxy.out
            /\ proxy.out.mode = "fixed_servers"
            /\ proxy.out.proxyRules =
                   (IF ExpectedHttp # <<>> THEN HTTP_RULE \o ExpectedHttp \o <<";">> ELSE <<>>)
                   \o (IF ExpectedHttps # <<>> THEN HTTPS_RULE \o ExpectedHttps \o <<";">>
                       ELSE <<>>)
                   \o ExpectedFallback
            /\ "proxyBypassRules" \in DOMAIN proxy.out <=> ~AllBlank(settings.proxyBypassRules)

\* the configuration has been built for enabled settings whose only server
\* is proxyHttpsServer, without bypass rules: one https rule and the fallback
ElectronConfigWitness ==
    /\ proxy.op = "electron"
    /\ settings.proxyEnabled
    /\ ~AllBlank(settings.proxyHttpsServer)
    /\ AllBlank(settings.proxyServer) /\ AllBlank(settings.proxyHttpServer)
    /\ AllBlank(settings.proxyAllServer)
    /\ AllBlank(settings.proxyBypassRules) /\ settings.proxyBypassRules # <<>>
    /\ DOMAIN proxy.out = {"mode", "proxyRules"}

(***************************************************************************)
(* C16.  buildProxyEnv always returns the same eight keys, each lower-case *)
(* variable equal to its upper-case counterpart; all eight are empty when  *)
(* proxyEnabled is false; when enabled, NO_PROXY is the bypass rules split *)
(* on comma, semicolon and newline, each trimmed, the blank ones dropped,  *)
(* joined by commas.                                                       *)
(***************************************************************************)
EnvKeys ==
    {"HTTP_PROXY", "HTTPS_PROXY", "ALL_PROXY", "http_proxy", "https_proxy", "all_proxy",
     "NO_PROXY", "no_proxy"}

\* position i of s is a cut: a separator, or the end of s
IsCut(s, i) == i = Len(s) + 1 \/ s[i] \in {",", ";", NL}

\* the trimmed non-blank rules of s that start after position c
RECURSIVE RulesAfter(_, _)
RulesAfter(s, c) ==
    LET n == CHOOSE i \in (c + 1)..(Len(s) + 1) :
                 IsCut(s, i) /\ \A j \in (c + 1)..(i - 1) : ~IsCut(s, j)
        rule == TrimmedByPosition(SubSeq(s, c + 1, n - 1))
        rest == IF n = Len(s) + 1 THEN <<>> ELSE RulesAfter(s, n)
    IN  IF rule = <<>> THEN rest ELSE <<rule>> \o rest

RECURSIVE CommaJoined(_)
CommaJoined(rules) ==
    IF rules = <<>> THEN <<>>
    ELSE rules[1] \o (IF Len(rules) = 1 THEN <<>> ELSE <<",">> \o CommaJoined(Tail(rules)))

ProxyEnvKeys ==
    proxy.op = "env" =>
        /\ DOMAIN proxy.out = EnvKeys
        /\ proxy.out.http_proxy = proxy.out.HTTP_PROXY
        /\ proxy.out.https_proxy = proxy.out.HTTPS_PROXY
        /\ proxy.out.all_proxy = proxy.out.ALL_PROXY
        /\ proxy.out.no_proxy = proxy.out.NO_PROXY
        /\ ~settings.proxyEnabled => \A k \in EnvKeys : proxy.out[k] = <<>>
        /\ settings.proxyEnabled =>
               proxy.out.NO_PROXY = CommaJoined(RulesAfter(settings.proxyBypassRules, 0))

\* the environment has been built for enabled settings whose bypass rules
\* hold a separator that is no comma and white space: two rules, one comma
ProxyEnvKeysWitness ==
    /\ proxy.op = "env"
    /\ settings.proxyEnabled
    /\ \E i \in 1..Len(settings.proxyBypassRules) : settings.proxyBypassRules[i] \in {";", NL}
    /\ \E i \in 1..Len(settings.proxyBypassRules) : settings.proxyBypassRules[i] = SP
    /\ proxy.out.NO_PROXY = <<"x", ",", "x">>

(***************************************************************************)
(* C17.  Two concurrent syncs are harmless: for a target document holding  *)
(* no marker section or one well-formed section, whatever the order of the *)
(* read and write steps of the two calls, once both have ended the         *)
(* document is the result of a single run: the text outside the section    *)
(* as it was and the canonical wrapped section in place of the old one, or *)
(* appended after two newlines when there was none.                        *)
(***************************************************************************)
\* r is the result of one sync of section s on the well-formed document d
IsSingleRunResult(r, d, s) ==
    IF Occurs(d, CLAWX_BEGIN)
    THEN \E i, j \in 0..Len(d) :
            /\ FirstAt(d, CLAWX_BEGIN, i) /\ FirstAt(d, CLAWX_END, j)
            /\ IsAround(r, PrefixOf(d, i), s, SuffixOf(d, j))
    ELSE \E n \in 0..Len(d) :
            /\ TrimEndsAt(d, n)
            /\ IsAround(r, SubSeq(d, 1, n) \o <<NL, NL>>, s, <<NL>>)

ConcurrentSyncsHarmless ==
    (procs # NoProcs /\ \A i \in DOMAIN procs : procs[i].pc = "done") =>
        /\ RaceTarget \in DOMAIN disk.files
        /\ IsSingleRunResult(disk.files[RaceTarget], disk0.files[RaceTarget],
                             context.bodies[AGENTS_TEMPLATE])

(***************************************************************************)
(* C18.  Repeated sync converges: whatever the target documents hold at    *)
(* the start, with the templates unchanged and no other writer, the syncs  *)
(* stop writing after finitely many runs.  In SpecRepeat the number of     *)
(* runs is MaxSyncs - 1: the sync that follows them writes nothing and     *)
(* leaves every document as it is.                                         *)
(***************************************************************************)
SyncConverges ==
    Len(ops) = MaxSyncs =>
        /\ written = {}
        /\ disk.files = before.files

(***************************************************************************)
(* C19.  At most one marker section: with template bodies that hold no     *)
(* marker, a document that held at most one BEGIN marker and at most one   *)
(* END marker at the start still holds at most one of each after any       *)
(* number of syncs.                                                        *)
(***************************************************************************)
CountOf(d, m) == Cardinality({i \in 0..Len(d) : OccursAt(d, m, i)})

AtMostOneSection ==
    (\A t \in Templates : MarkerFree(context.bodies[t])) =>
        \A p \in DOMAIN disk0.files \cap DOMAIN disk.files :
            (CountOf(disk0.files[p], CLAWX_BEGIN) <= 1 /\ CountOf(disk0.files[p], CLAWX_END) <= 1)
                => /\ CountOf(disk.files[p], CLAWX_BEGIN) <= 1
                   /\ CountOf(disk.files[p], CLAWX_END) <= 1

(***************************************************************************)
(* C20, as stated.  Foreign content is preserved as it is: a sync changes  *)
(* only the marker section of a target.  For a document with a section     *)
(* (its first BEGIN before its first END) the text before the section and  *)
(* the text after it are the beginning and the end of the document after   *)
(* the run; for a document without any marker the whole document occurs,   *)
(* byte for byte, in the document after the run; a file that is no target  *)
(* is left as it is.                                                       *)
(***************************************************************************)
ForeignContentVerbatim ==
    (LastOp = "sync" /\ ~threw) =>
        \A p \in DOMAIN before.files :
            /\ p \in DOMAIN disk.files
            /\ DueIn(before, p) = {} => disk.files[p] = before.files[p]
            /\ \A s \in DueIn(before, p) :
                LET d == before.files[p]
                    r == disk.files[p]
                IN  /\ \A i, j \in 0..Len(d) :
                           (/\ SplitsAt(d, i, j)
                            /\ FirstAt(d, CLAWX_BEGIN, i)
                            /\ FirstAt(d, CLAWX_END, j)) =>
                               IsAround(r, PrefixOf(d, i), s, SuffixOf(d, j))
                    /\ MarkerFree(d) => Occurs(r, d)

(***************************************************************************)
(* C20, amended.  A sync changes only the marker section of a target.      *)
(* When both markers occur in the document, the text before the first      *)
(* BEGIN and the text after the first END are the beginning and the end of *)
(* the document after the run, the canonical wrapped section lying between *)
(* them; when a marker is missing, the document without its trailing white *)
(* space is the beginning of the document after the run, followed by two   *)
(* newlines, the canonical wrapped section and a newline; a file that is   *)
(* no target is left as it is.                                             *)
(***************************************************************************)
ForeignContentKept ==
    (LastOp = "sync" /\ ~threw) =>
        \A p \in DOMAIN before.files :
            /\ p \in DOMAIN disk.files
            /\ DueIn(before, p) = {} => disk.files[p] = before.files[p]
            /\ \A s \in DueIn(before, p) :
                LET d == before.files[p]
                    r == disk.files[p]
                IN  IF Occurs(d, CLAWX_BEGIN) /\ Occurs(d, CLAWX_END)
                    THEN \E i, j \in 0..Len(d) :
                            /\ FirstAt(d, CLAWX_BEGIN, i)
                            /\ FirstAt(d, CLAWX_END, j)
                            /\ IsAround(r, PrefixOf(d, i), s, SuffixOf(d, j))
                    ELSE \E n \in 0..Len(d) :
                            /\ TrimEndsAt(d, n)
                            /\ IsAround(r, SubSeq(d, 1, n) \o <<NL, NL>>, s, <<NL>>)

\* a sync has appended the section to a document without markers whose
\* text was followed by white space
ForeignContentKeptWitness ==
    /\ LastOp = "sync" /\ ~threw
    /\ \E p \in DOMAIN before.files :
        /\ DueIn(before, p) # {}
        /\ MarkerFree(before.files[p])
        /\ Len(before.files[p]) >= 2
        /\ ~AllBlank(before.files[p])
        /\ AllBlank(<<before.files[p][Len(before.files[p])]>>)
        /\ disk.files[p] # before.files[p]

(***************************************************************************)
(* C21.  The default workspace is synthesized only when the configuration  *)
(* document and the scan of ~/.openclaw together contributed no path:      *)
(* when either contributed one, the result is exactly the union of the     *)
(* paths of the two, each path once; when neither did, it is the default   *)
(* workspace alone.                                                        *)
(***************************************************************************)
\* the paths a parsed configuration document declares, home-expanded
ConfigContribution ==
    {HomeExpanded(f.val) : f \in {g \in DeclaredFields(config) : g.str /\ ~AllBlank(g.val)}}

\* the workspace directories right below a listable ~/.openclaw
ScanContribution ==
    IF openclawDir \in disk.dirs /\ ~Refused(disk, openclawDir, "list")
    THEN {d \in disk.dirs : IsScannedWorkspace(disk, d)}
    ELSE {}

DefaultOnlyWhenEmpty ==
    ops = <<"resolve">> =>
        LET contributed == ConfigContribution \cup ScanContribution
            returned == resolveAllWorkspaceDirs(config, disk)
        IN  /\ resolved = Range(returned)
            /\ Len(returned) = Cardinality(resolved)
            /\ contributed # {} => resolved = contributed
            /\ contributed = {} => resolved = {defaultWorkspace}

\* the configuration document declared the default workspace with the home
\* shorthand and ~/w1 twice, the scan found the default workspace and one
\* more: three paths have been returned
DefaultOnlyWhenEmptyWitness ==
    /\ ops = <<"resolve">>
    /\ defaultWorkspace \in ConfigContribution \cap ScanContribution
    /\ Cardinality(ScanContribution) = 2
    /\ config.list.arr /\ Len(config.list.items) = 2
    /\ \A k \in 1..2 : config.list.items[k].str /\ HomeExpanded(config.list.items[k].val) = W1
    /\ Cardinality(resolved) = 3

(***************************************************************************)
(* C22.  When the bundled templates location is absent, a sync is a no-op: *)
(* the file system after it is the file system before it (no directory     *)
(* created, no document written or deleted) and no exception leaves it.    *)
(***************************************************************************)
NoTemplatesNoOp ==
    (LastOp = "sync" /\ ~context.present) =>
        /\ disk = before
        /\ written = {}
        /\ ~threw

\* a sync has run without the templates location while a declared
\* workspace did not exist and a document of another one held no section
NoTemplatesNoOpWitness ==
    /\ LastOp = "sync"
    /\ ~context.present
    /\ \E ws \in Discovered(before) : ws \notin before.dirs
    /\ \E p \in DOMAIN before.files :
        /\ IsDocumentOf(p, defaultWorkspace)
        /\ MarkerFree(before.files[p])

(***************************************************************************)
(* C23.  A sync never manufactures a hollow document: a target that was    *)
(* not hollow when the sync started (an empty or blank document and a      *)
(* document holding the BEGIN marker alone included) is not hollow after   *)
(* it, so that after a repair followed by a sync no document of a          *)
(* discovered workspace is hollow.                                         *)
(***************************************************************************)
SyncMakesNoHollow ==
    /\ (LastOp = "sync" /\ ~threw) =>
           \A p \in DOMAIN before.files \cap DOMAIN disk.files :
               ~HollowByPosition(before.files[p]) => ~HollowByPosition(disk.files[p])
    /\ (ops = <<"repair", "sync">> /\ ~threw) =>
           \A p \in DOMAIN disk.files :
               (\E ws \in Discovered(disk0) : IsDocumentOf(p, ws))
                   => ~HollowByPosition(disk.files[p])

(***************************************************************************)
(* C24.  Under every interleaving of a repair pass with the runtime        *)
(* writing the same file, the pass removes a document only if what the     *)
(* document holds at the moment of removal is hollow: no runtime write     *)
(* falls between the read of the pass and its removal of the file.         *)
(***************************************************************************)
RepairRemovesOnlyHollow ==
    procs.removed # <<>> =>
        /\ HollowByPosition(procs.removed[1])
        /\ \A r, k \in 1..Len(ops) :
               (ops[r] = "read" /\ ops[k] = "unlink") =>
                   \A m \in (r + 1)..(k - 1) : ops[m] # "seed"

(***************************************************************************)
(* C25.  Under every interleaving of a sync with a process that removes    *)
(* the target, the write of the sync never brings into existence a         *)
(* document that was absent at the moment of the write.                    *)
(***************************************************************************)
SyncWriteNeverCreates ==
    [][(procs["first"].pc = "write" /\ procs'["first"].pc # "write"
          /\ ~existsSync(disk, RaceTarget))
       => ~existsSync(disk', RaceTarget)]_vars

====
